---- MODULE Spec2Model ----
(***************************************************************************)
(* Model of the Veed operation queue (class VeedQueue, veed-queue.js) and  *)
(* of its callers in index.js.                                             *)
(*                                                                         *)
(* The host runtime is single-threaded and cooperative: a handler runs     *)
(* from its call (or from the point where an awaited promise settles) up   *)
(* to its next await of an external event.  Each action below is one such  *)
(* run.  Awaits of promises that are already resolved (await               *)
(* getVeedService()) are continued in the microtask queue, before any      *)
(* other handler can run, and are therefore part of the same action.       *)
(*                                                                         *)
(* Operation IDs: crypto.randomUUID() is modelled as minting the next      *)
(* unused natural number, so the order of IDs is the order of arrival.     *)
(* The clock `now` is the reading of Date.now(); how long the Executor, an *)
(* initialization or a timer takes is not tied to the clock's unit.        *)
(***************************************************************************)
EXTENDS Integers, Sequences, FiniteSets, TLC

\* ------------------------------------------------------------------ bounds
\* Number of operation IDs that can be minted in one behaviour.
MaxOps == 3
\* this.maxQueueSize (10 in the source), scaled so that a full queue is reached.
maxQueueSize == 3
\* Number of concurrent callers of POST /api/veed/init.
MaxInitCallers == 1

\* this.operationTTL in units of the clock.  The clock advances in steps
\* longer than the retention window of 30 minutes, so the window is 0 steps:
\* a terminal record is past it once the clock has advanced since its last
\* update, and within it while the clock still reads its updatedAt.
operationTTL == 0
\* Last reading of the clock.
MaxTime == operationTTL + 1
\* The length getAllStatus cuts its list to: slice(0, 20) in the source,
\* scaled so that the store can hold more records than the list.
statusListLimit == 2

\* ------------------------------------------------------- OperationStatus
QUEUED == "queued"
PROCESSING == "processing"
COMPLETED == "completed"
FAILED == "failed"
OperationStatus == {QUEUED, PROCESSING, COMPLETED, FAILED}

\* null for currentOperation and for an operation ID that is not given
Null == 0
\* null for the string-valued fields result, error and progress
None == ""

ErrCancelled == "Cancelled by user"
ErrUnavailable == "Veed service not available"
ErrTimeout == "Operation timed out"
\* error.message of a rejection of service.generateVideo (passed through)
ErrExecutor == "Executor error"
ErrNotFound == "Operation not found"
ErrQueueFull == "Queue is full"
ErrInvalidState(status) == "Cannot cancel operation in " \o status \o " status"
\* the payload service.generateVideo resolves with
VideoResult == "video"
ProgressStart == "Starting video generation..."

Ids == 1..MaxOps
Callers == 1..MaxInitCallers

VARIABLES
  operations,           \* this.operations: id -> operation record
  queue,                \* this.queue: pending operation IDs
  currentOperation,     \* this.currentOperation
  isProcessing,         \* this.isProcessing
  serviceReady,         \* this.serviceReady
  serviceInitializing,  \* this.serviceInitializing
  drain,                \* where processQueue is suspended: idle, init, poll, exec
  initCalls,            \* number of initVeedService() calls in flight
  initCaller,           \* per /api/veed/init request: idle, own, poll
  executing,            \* IDs whose executeOperation() call has not settled
  timers,               \* IDs whose executeWithTimeout timer has not fired
  nextId,               \* the next ID randomUUID() returns
  now,                  \* Date.now()
  ret,                  \* what the call made by the last step returned
  joinedFailed          \* history: waiting callers whose attempt failed

vars == <<operations, queue, currentOperation, isProcessing, serviceReady,
          serviceInitializing, drain, initCalls, initCaller, executing,
          timers, nextId, now, ret, joinedFailed>>

\* The fields of the VeedQueue object together with the suspended calls.
progVars == <<operations, queue, currentOperation, isProcessing, serviceReady,
              serviceInitializing, drain, initCalls, initCaller, executing,
              timers>>

\* ---------------------------------------------------------------- helpers
\* Variant of queueShift that takes the last element (pop for shift).
queuePop(q) == [value |-> q[Len(q)], rest |-> SubSeq(q, 1, Len(q) - 1)]

\* Array.prototype.shift() on a non-empty array: the element and what is left
queueShift(q) == [value |-> Head(q), rest |-> Tail(q)]

\* Variant of IndexOf that never finds the element.
IndexOfNever(q, x) == 0

\* Array.prototype.indexOf(x) + 1: 1-based index of the first x, 0 if absent
IndexOf(q, x) ==
  IF \E i \in 1..Len(q) : q[i] = x
    THEN CHOOSE i \in 1..Len(q) : q[i] = x /\ \A j \in 1..(i - 1) : q[j] # x
    ELSE 0

\* Variant of Splice without the delete count: splice(index).
SpliceToEnd(q, i) == SubSeq(q, 1, i - 1)

\* Array.prototype.splice(index, 1) with the 1-based index i
Splice(q, i) == [j \in 1..(Len(q) - 1) |-> IF j < i THEN q[j] ELSE q[j + 1]]

\* The state of the queue object as one value, so that the synchronous
\* stretches of the code can be written as functions from state to state.
St ==
  [operations |-> operations, queue |-> queue,
   currentOperation |-> currentOperation, isProcessing |-> isProcessing,
   serviceReady |-> serviceReady, serviceInitializing |-> serviceInitializing,
   drain |-> drain, initCalls |-> initCalls, executing |-> executing,
   timers |-> timers]

Install(st) ==
  /\ operations' = st.operations
  /\ queue' = st.queue
  /\ currentOperation' = st.currentOperation
  /\ isProcessing' = st.isProcessing
  /\ serviceReady' = st.serviceReady
  /\ serviceInitializing' = st.serviceInitializing
  /\ drain' = st.drain
  /\ initCalls' = st.initCalls
  /\ executing' = st.executing
  /\ timers' = st.timers

\* What a step that makes no API call leaves in ret.
NoRet ==
  [op |-> "none", id |-> Null, ok |-> FALSE, status |-> "none",
   position |-> 0, queueLength |-> 0, error |-> None, http |-> 0,
   result |-> None, progress |-> None, createdAt |-> 0, updatedAt |-> 0,
   processing |-> FALSE, currentOperationId |-> Null, serviceReady |-> FALSE,
   operations |-> <<>>]

\* -------------------------------------------------------------- processQueue
\* Variant of executeWithTimeout that calls executeOperation without arming
\* the timer.
executeWithoutTimeout(st, id) ==
  [st EXCEPT !.executing = @ \cup {id},
             !.operations[id].progress = ProgressStart,
             !.operations[id].updatedAt = now]

\* executeWithTimeout(operation): arm the timer, call executeOperation, which
\* (after the already-resolved await getVeedService()) writes the first
\* progress and calls service.generateVideo.
executeWithTimeout(st, id) ==
  [st EXCEPT !.timers = @ \cup {id},
             !.executing = @ \cup {id},
             !.operations[id].progress = ProgressStart,
             !.operations[id].updatedAt = now]

\* Variant of initializeService without the serviceInitializing test of lines
\* 46-52.
initializeServiceNoWait(st) ==
  IF st.serviceReady
    THEN [st |-> st, pc |-> "done", value |-> TRUE]
    ELSE [st |-> [st EXCEPT !.serviceInitializing = TRUE, !.initCalls = @ + 1],
          pc |-> "own", value |-> FALSE]

\* Lines 45-59 and 69-71: initializeService up to its first suspension.
\* pc says where the caller is afterwards: "poll" (waiting in the loop of
\* lines 48-50), "own" (awaiting its own initVeedService call) or "done"
\* (returned `value`).
initializeService(st) ==
  IF st.serviceInitializing
    THEN [st |-> st, pc |-> "poll", value |-> FALSE]
  ELSE IF st.serviceReady
    THEN [st |-> st, pc |-> "done", value |-> TRUE]
  ELSE [st |-> [st EXCEPT !.serviceInitializing = TRUE, !.initCalls = @ + 1],
        pc |-> "own", value |-> FALSE]

\* Variant of initSettled that clears serviceInitializing only when the call
\* resolved: the catch of lines 64-67 returning early.
initSettledCatchReturns(st, outcome) ==
  [st EXCEPT !.serviceReady = (outcome = "true"),
             !.serviceInitializing = (outcome = "throw"),
             !.initCalls = @ - 1]

\* Lines 62-70: the initVeedService call of an initializeService caller
\* settled; `outcome` is "true", "false" (resolved values) or "throw".
initSettled(st, outcome) ==
  [st EXCEPT !.serviceReady = (outcome = "true"),
             !.serviceInitializing = FALSE,
             !.initCalls = @ - 1]

\* Variant of failQueued that fails only the operation at the head of the
\* queue.
failQueuedHeadOnly(st) ==
  [st EXCEPT
     !.operations =
       [id \in DOMAIN st.operations |->
          IF st.queue # <<>> /\ Head(st.queue) = id
            THEN [st.operations[id] EXCEPT !.status = FAILED,
                                           !.error = ErrUnavailable,
                                           !.updatedAt = now]
            ELSE st.operations[id]],
     !.queue = <<>>]

\* Variant of failQueued that sets the status without writing the error.
failQueuedNoError(st) ==
  [st EXCEPT
     !.operations =
       [id \in DOMAIN st.operations |->
          IF \E i \in 1..Len(st.queue) : st.queue[i] = id
            THEN [st.operations[id] EXCEPT !.status = FAILED,
                                           !.updatedAt = now]
            ELSE st.operations[id]],
     !.queue = <<>>]

\* Variant of failQueued without the reset of the queue at line 208.
failQueuedKeepsQueue(st) ==
  [st EXCEPT
     !.operations =
       [id \in DOMAIN st.operations |->
          IF \E i \in 1..Len(st.queue) : st.queue[i] = id
            THEN [st.operations[id] EXCEPT !.status = FAILED,
                                           !.error = ErrUnavailable,
                                           !.updatedAt = now]
            ELSE st.operations[id]]]

\* Lines 199-209: initialization failed; fail every queued operation.
failQueued(st) ==
  [st EXCEPT
     !.operations =
       [id \in DOMAIN st.operations |->
          IF \E i \in 1..Len(st.queue) : st.queue[i] = id
            THEN [st.operations[id] EXCEPT !.status = FAILED,
                                           !.error = ErrUnavailable,
                                           !.updatedAt = now]
            ELSE st.operations[id]],
     !.queue = <<>>]

\* Lines 193-227 and 245: the while loop up to the next suspension or to the
\* return of processQueue.  whileLoop starts at the loop's test, afterInit
\* where initializeService has returned `ready` to line 196, shiftAndRun at
\* line 213.
RECURSIVE whileLoop(_)
RECURSIVE afterInit(_, _)
RECURSIVE shiftAndRun(_)
whileLoop(st) ==
  IF st.queue = <<>>
    THEN [st EXCEPT !.isProcessing = FALSE, !.drain = "idle"]
  ELSE IF ~st.serviceReady
    THEN LET r == initializeService(st)
         IN  IF r.pc = "done"
               THEN afterInit(r.st, r.value)
               ELSE [r.st EXCEPT !.drain = IF r.pc = "own" THEN "init"
                                                           ELSE "poll"]
  ELSE shiftAndRun(st)

\* Variant of afterInit that goes back to the loop test after a failed
\* initialization (a continue for the break of line 209, without failing the
\* queued operations), so that the loop calls initializeService again.
afterInitRetries(st, ready) ==
  IF ~ready
    THEN whileLoop(st)
    ELSE shiftAndRun(st)

afterInit(st, ready) ==
  IF ~ready
    THEN [failQueued(st) EXCEPT !.isProcessing = FALSE, !.drain = "idle"]
    ELSE shiftAndRun(st)

shiftAndRun(st) ==
  IF st.queue = <<>>
    THEN \* shift() gives undefined, operations.get(undefined) too: continue
         whileLoop(st)
  ELSE
    LET operationId == queueShift(st.queue).value
        shifted == [st EXCEPT !.queue = queueShift(@).rest]
    IN  IF operationId \notin DOMAIN st.operations
          THEN whileLoop(shifted)
          ELSE executeWithTimeout(
                 [shifted EXCEPT !.currentOperation = operationId,
                                 !.operations[operationId].status = PROCESSING,
                                 !.operations[operationId].updatedAt = now,
                                 !.drain = "exec"],
                 operationId)

\* Variant of processQueue without the isProcessing test of lines 187-189.
processQueueReentrant(st) == whileLoop([st EXCEPT !.isProcessing = TRUE])

\* Lines 186-191: the call of processQueue.
processQueue(st) ==
  IF st.isProcessing
    THEN st
    ELSE whileLoop([st EXCEPT !.isProcessing = TRUE])

\* Variant of afterExecute without the reset of currentOperation at line 242.
afterExecuteKeepsMarker(st, outcome) ==
  LET id == st.currentOperation
  IN  whileLoop(
        IF outcome = "resolve"
          THEN [st EXCEPT !.operations[id].status = COMPLETED,
                          !.operations[id].result = VideoResult,
                          !.operations[id].updatedAt = now]
          ELSE [st EXCEPT !.operations[id].status = FAILED,
                          !.operations[id].error =
                             IF outcome = "timeout" THEN ErrTimeout
                                                    ELSE ErrExecutor,
                          !.operations[id].updatedAt = now])

\* Variant of afterExecute in which a rejection or a timeout leaves the loop
\* (the error is thrown out of processQueue) instead of going on with the
\* next operation.
afterExecuteThrows(st, outcome) ==
  LET id == st.currentOperation
  IN  IF outcome = "resolve"
        THEN whileLoop([st EXCEPT !.operations[id].status = COMPLETED,
                                  !.operations[id].result = VideoResult,
                                  !.operations[id].updatedAt = now,
                                  !.currentOperation = Null])
        ELSE [st EXCEPT !.operations[id].status = FAILED,
                        !.operations[id].error =
                           IF outcome = "timeout" THEN ErrTimeout
                                                  ELSE ErrExecutor,
                        !.operations[id].updatedAt = now,
                        !.currentOperation = Null,
                        !.isProcessing = FALSE,
                        !.drain = "idle"]

\* Lines 229-243: the race of executeWithTimeout settled for the current
\* operation; `outcome` is "resolve", "reject" or "timeout".
afterExecute(st, outcome) ==
  LET id == st.currentOperation
      done ==
        IF outcome = "resolve"
          THEN [st EXCEPT !.operations[id].status = COMPLETED,
                          !.operations[id].result = VideoResult,
                          !.operations[id].updatedAt = now]
          ELSE [st EXCEPT !.operations[id].status = FAILED,
                          !.operations[id].error =
                             IF outcome = "timeout" THEN ErrTimeout
                                                    ELSE ErrExecutor,
                          !.operations[id].updatedAt = now]
  IN  whileLoop([done EXCEPT !.currentOperation = Null])

\* ----------------------------------------------------------- API functions
\* crypto.randomUUID(): a value no earlier call returned.
randomUUID == nextId

\* Variant of pendingCount that adds one whether or not an operation is being
\* processed.
pendingCountAlwaysOne(st) == Len(st.queue) + 1

\* Line 76: the count enqueue compares with maxQueueSize.
pendingCount(st) ==
  Len(st.queue) + (IF st.currentOperation # Null THEN 1 ELSE 0)

\* Lines 74-110.  Gives the state after the call and the value returned (or
\* the error thrown) to the caller.
enqueue(st) ==
  IF pendingCount(st) >= maxQueueSize
    THEN [st |-> st,
          ret |-> [NoRet EXCEPT !.op = "enqueue", !.error = ErrQueueFull]]
    ELSE
      LET operationId == randomUUID
          \* operation.position is written at line 90 and read only at
          \* lines 99 and 107 of the same call: kept as a local value
          position == Len(st.queue) + 1
          operation ==
            [status |-> QUEUED, createdAt |-> now, updatedAt |-> now,
             result |-> None, error |-> None, progress |-> None]
          added ==
            [st EXCEPT
               !.operations = (operationId :> operation) @@ @,
               !.queue = Append(@, operationId)]
          after == processQueue(added)
      IN  [st |-> after,
           ret |-> [NoRet EXCEPT
                      !.op = "enqueue",
                      !.ok = TRUE,
                      !.id = operationId,
                      !.status = after.operations[operationId].status,
                      !.position = position,
                      !.queueLength = Len(after.queue)]]

\* Variant of cancel without the status test of lines 166-168.
cancelAnyStatus(st, operationId) ==
  IF operationId \notin DOMAIN st.operations
    THEN [st |-> st,
          ret |-> [NoRet EXCEPT !.op = "cancel", !.id = operationId,
                                !.error = ErrNotFound]]
    ELSE
      LET index == IndexOf(st.queue, operationId)
      IN  [st |-> [st EXCEPT
                     !.queue = IF index > 0 THEN Splice(@, index) ELSE @,
                     !.operations[operationId].status = FAILED,
                     !.operations[operationId].error = ErrCancelled,
                     !.operations[operationId].updatedAt = now],
           ret |-> [NoRet EXCEPT !.op = "cancel", !.id = operationId,
                                 !.ok = TRUE]]

\* Variant of cancel that fails the record and leaves its ID in the queue
\* (without the splice of lines 171-174).
cancelWithoutSplice(st, operationId) ==
  IF operationId \notin DOMAIN st.operations
    THEN [st |-> st,
          ret |-> [NoRet EXCEPT !.op = "cancel", !.id = operationId,
                                !.error = ErrNotFound]]
  ELSE IF st.operations[operationId].status # QUEUED
    THEN [st |-> st,
          ret |-> [NoRet EXCEPT
                     !.op = "cancel", !.id = operationId,
                     !.error =
                        ErrInvalidState(st.operations[operationId].status)]]
  ELSE
    [st |-> [st EXCEPT
               !.operations[operationId].status = FAILED,
               !.operations[operationId].error = ErrCancelled,
               !.operations[operationId].updatedAt = now],
     ret |-> [NoRet EXCEPT !.op = "cancel", !.id = operationId,
                           !.ok = TRUE]]

\* Lines 160-183.
cancel(st, operationId) ==
  IF operationId \notin DOMAIN st.operations
    THEN [st |-> st,
          ret |-> [NoRet EXCEPT !.op = "cancel", !.id = operationId,
                                !.error = ErrNotFound]]
  ELSE IF st.operations[operationId].status # QUEUED
    THEN [st |-> st,
          ret |-> [NoRet EXCEPT
                     !.op = "cancel", !.id = operationId,
                     !.error =
                        ErrInvalidState(st.operations[operationId].status)]]
  ELSE
    LET index == IndexOf(st.queue, operationId)
    IN  [st |-> [st EXCEPT
                   !.queue = IF index > 0 THEN Splice(@, index) ELSE @,
                   !.operations[operationId].status = FAILED,
                   !.operations[operationId].error = ErrCancelled,
                   !.operations[operationId].updatedAt = now],
         ret |-> [NoRet EXCEPT !.op = "cancel", !.id = operationId,
                               !.ok = TRUE]]

\* Variant of getStatus whose position is the index indexOf gives, without
\* the + 1 of line 119.
getStatusZeroBased(st, operationId) ==
  IF operationId \notin DOMAIN st.operations
    THEN [NoRet EXCEPT !.op = "status", !.id = operationId]
    ELSE
      LET operation == st.operations[operationId]
      IN  [NoRet EXCEPT
             !.op = "status",
             !.ok = TRUE,
             !.id = operationId,
             !.status = operation.status,
             !.position = IF operation.status = QUEUED
                            THEN IndexOf(st.queue, operationId) - 1
                            ELSE 0,
             !.queueLength = Len(st.queue),
             !.progress = operation.progress,
             !.createdAt = operation.createdAt,
             !.updatedAt = operation.updatedAt,
             !.result = operation.result,
             !.error = operation.error]

\* Lines 113-136.  ok is FALSE when the call returns null; position 0 is the
\* null position.
getStatus(st, operationId) ==
  IF operationId \notin DOMAIN st.operations
    THEN [NoRet EXCEPT !.op = "status", !.id = operationId]
    ELSE
      LET operation == st.operations[operationId]
          position == IF operation.status = QUEUED
                        THEN IndexOf(st.queue, operationId)
                        ELSE 0
      IN  [NoRet EXCEPT
             !.op = "status",
             !.ok = TRUE,
             !.id = operationId,
             !.status = operation.status,
             !.position = position,
             !.queueLength = Len(st.queue),
             !.progress = operation.progress,
             !.createdAt = operation.createdAt,
             !.updatedAt = operation.updatedAt,
             !.result = operation.result,
             !.error = operation.error]

\* Variant of sortByCreatedAtDesc with the comparison the other way round:
\* (a, b) => a.createdAt - b.createdAt.
sortByCreatedAtAsc(ops) ==
  LET Before(a, b) ==
        \/ ops[a].createdAt < ops[b].createdAt
        \/ ops[a].createdAt = ops[b].createdAt /\ a < b
      Place(a) == 1 + Cardinality({b \in DOMAIN ops : Before(b, a)})
  IN  [k \in 1..Cardinality(DOMAIN ops) |->
         CHOOSE a \in DOMAIN ops : Place(a) = k]

\* Line 155: operations.sort((a, b) => b.createdAt - a.createdAt) on the
\* entries of the Map in insertion order (the order of the IDs).  The sort is
\* stable, so entries with equal createdAt keep their insertion order: an
\* entry's place is one more than the number of entries that go before it.
sortByCreatedAtDesc(ops) ==
  LET Before(a, b) ==
        \/ ops[a].createdAt > ops[b].createdAt
        \/ ops[a].createdAt = ops[b].createdAt /\ a < b
      Place(a) == 1 + Cardinality({b \in DOMAIN ops : Before(b, a)})
  IN  [k \in 1..Cardinality(DOMAIN ops) |->
         CHOOSE a \in DOMAIN ops : Place(a) = k]

\* Array.prototype.slice(0, n)
slice(list, n) == SubSeq(list, 1, IF Len(list) < n THEN Len(list) ELSE n)

\* Lines 139-157.  A summary in the list is given by its operationId; its
\* status, createdAt and updatedAt are those of the record.
getAllStatus(st) ==
  [NoRet EXCEPT
     !.op = "queue",
     !.ok = TRUE,
     !.queueLength = Len(st.queue),
     !.processing = (st.currentOperation # Null),
     !.currentOperationId = st.currentOperation,
     !.serviceReady = st.serviceReady,
     !.operations = slice(sortByCreatedAtDesc(st.operations), statusListLimit)]

\* Variant of cleanupOldOperations without the test of the status.
cleanupOldOperationsAnyStatus(st) ==
  LET toDelete ==
        {id \in DOMAIN st.operations :
           now - st.operations[id].updatedAt > operationTTL}
  IN  [st EXCEPT !.operations =
                    [id \in DOMAIN st.operations \ toDelete |->
                       st.operations[id]]]

\* Lines 281-302.
cleanupOldOperations(st) ==
  LET toDelete ==
        {id \in DOMAIN st.operations :
           /\ st.operations[id].status \in {COMPLETED, FAILED}
           /\ now - st.operations[id].updatedAt > operationTTL}
  IN  [st EXCEPT !.operations =
                    [id \in DOMAIN st.operations \ toDelete |->
                       st.operations[id]]]

\* ---------------------------------------------------------------- history
\* The callers of initializeService that are in the loop of lines 48-50: the
\* drain loop (0) and the /api/veed/init requests.
Waiting ==
  (IF drain = "poll" THEN {0} ELSE {})
    \cup {c \in Callers : initCaller[c] = "poll"}

\* The value of joinedFailed in the behaviours that keep no history (no
\* caller has this number).
Untracked == {-1}

\* joinedFailed after a step.  A caller enters the loop because an
\* initVeedService call is in flight, and calls are in flight one at a time:
\* when a call settles with the service not ready, the callers in the loop
\* are those that waited for this call.  A caller that leaves the loop is
\* forgotten.
joinedFailedNext ==
  IF joinedFailed = Untracked
    THEN Untracked
  ELSE IF initCalls' < initCalls /\ ~serviceReady'
    THEN Waiting \cap Waiting'
    ELSE joinedFailed \cap Waiting'

\* ------------------------------------------------------------------- Init
\* The object after the constructor (lines 13-42); no request was made yet.
Constructed ==
  /\ operations = [id \in {} |-> Null]
  /\ queue = <<>>
  /\ currentOperation = Null
  /\ isProcessing = FALSE
  /\ serviceReady = FALSE
  /\ serviceInitializing = FALSE
  /\ drain = "idle"
  /\ initCalls = 0
  /\ initCaller = [c \in Callers |-> "idle"]
  /\ executing = {}
  /\ timers = {}
  /\ nextId = 1
  /\ now = 0
  /\ ret = NoRet

Init == Constructed /\ joinedFailed = Untracked

\* The same start for the behaviours in which joinedFailed is kept.
InitJoined == Constructed /\ joinedFailed = {}


\* ---------------------------------------------------------------- actions
\* POST /api/veed/generate (index.js 877-913): queue.enqueue and the response.
Enqueue ==
  LET r == enqueue(St)
  IN  /\ r.ret.ok => nextId <= MaxOps
      /\ Install(r.st)
      /\ nextId' = IF r.ret.ok THEN nextId + 1 ELSE nextId
      /\ ret' = [r.ret EXCEPT !.http = IF r.ret.ok THEN 200 ELSE 500]
      /\ UNCHANGED <<initCaller, now>>
      /\ joinedFailed' = joinedFailedNext

\* Variant of Cancel that answers only when the drain loop is not running, as
\* a handler that awaited processQueue would.
CancelAfterDrain(operationId) ==
  LET r == cancel(St, operationId)
  IN  /\ drain = "idle"
      /\ Install(r.st)
      /\ ret' = [r.ret EXCEPT !.http = IF r.ret.ok THEN 200 ELSE 400]
      /\ UNCHANGED <<initCaller, nextId, now>>
      /\ joinedFailed' = joinedFailedNext

\* DELETE /api/veed/cancel/:operationId (index.js 969-992).
Cancel(operationId) ==
  LET r == cancel(St, operationId)
  IN  /\ Install(r.st)
      /\ ret' = [r.ret EXCEPT !.http = IF r.ret.ok THEN 200 ELSE 400]
      /\ UNCHANGED <<initCaller, nextId, now>>
      /\ joinedFailed' = joinedFailedNext

\* GET /api/veed/status/:operationId (index.js 916-948).
GetStatus(operationId) ==
  LET r == getStatus(St, operationId)
  IN  /\ ret' = [r EXCEPT !.http = IF r.ok THEN 200 ELSE 404,
                          !.error = IF r.ok THEN @ ELSE ErrNotFound]
      /\ UNCHANGED <<progVars, nextId, now>>
      /\ joinedFailed' = joinedFailedNext

\* GET /api/veed/queue (index.js 951-966).
GetAllStatus ==
  /\ ret' = [getAllStatus(St) EXCEPT !.http = 200]
  /\ UNCHANGED <<progVars, nextId, now>>
  /\ joinedFailed' = joinedFailedNext

\* POST /api/veed/init (index.js 861-875): the call of initializeService.
InitCall(c) ==
  LET r == initializeService(St)
  IN  /\ initCaller[c] = "idle"
      /\ Install(r.st)
      /\ initCaller' = [initCaller EXCEPT ![c] = IF r.pc = "done" THEN "idle"
                                                                  ELSE r.pc]
      /\ ret' = IF r.pc = "done"
                  THEN [NoRet EXCEPT !.op = "init", !.ok = r.value,
                                     !.http = 200]
                  ELSE NoRet
      /\ UNCHANGED <<nextId, now>>
      /\ joinedFailed' = joinedFailedNext

\* The initVeedService call of a /api/veed/init request settles.
InitSettleCaller(c, outcome) ==
  LET st == initSettled(St, outcome)
  IN  /\ initCaller[c] = "own"
      /\ Install(st)
      /\ initCaller' = [initCaller EXCEPT ![c] = "idle"]
      /\ ret' = [NoRet EXCEPT !.op = "init", !.ok = st.serviceReady,
                              !.http = 200]
      /\ UNCHANGED <<nextId, now>>
      /\ joinedFailed' = joinedFailedNext

\* A /api/veed/init request waiting in the loop of lines 48-50 wakes up and
\* finds serviceInitializing cleared (while it is set, nothing changes).
InitPollCaller(c) ==
  /\ initCaller[c] = "poll"
  /\ ~serviceInitializing
  /\ initCaller' = [initCaller EXCEPT ![c] = "idle"]
  /\ ret' = [NoRet EXCEPT !.op = "init", !.ok = serviceReady, !.http = 200]
  /\ UNCHANGED <<operations, queue, currentOperation, isProcessing,
                 serviceReady, serviceInitializing, drain, initCalls,
                 executing, timers, nextId, now>>
  /\ joinedFailed' = joinedFailedNext

\* The initVeedService call made by the drain loop settles.
InitSettleDrain(outcome) ==
  LET st == initSettled(St, outcome)
  IN  /\ drain = "init"
      /\ Install(afterInit(st, st.serviceReady))
      /\ ret' = NoRet
      /\ UNCHANGED <<initCaller, nextId, now>>
      /\ joinedFailed' = joinedFailedNext

\* The drain loop, waiting in the loop of lines 48-50, finds
\* serviceInitializing cleared.
InitPollDrain ==
  /\ drain = "poll"
  /\ ~serviceInitializing
  /\ Install(afterInit(St, serviceReady))
  /\ ret' = NoRet
  /\ UNCHANGED <<initCaller, nextId, now>>
  /\ joinedFailed' = joinedFailedNext

\* Variant of ExecutorSettle for an Executor that reports through the
\* updateProgress callback when it finishes.
ExecutorSettleReportsProgress(id, outcome) ==
  LET reported ==
        [k \in DOMAIN operations |->
           IF k = id THEN [operations[k] EXCEPT !.progress = "Finishing..."]
                     ELSE operations[k]]
      st == [St EXCEPT !.executing = @ \ {id}, !.operations = reported]
  IN  /\ id \in executing
      /\ Install(IF drain = "exec" /\ currentOperation = id
                   THEN afterExecute(st, outcome)
                   ELSE st)
      /\ ret' = NoRet
      /\ UNCHANGED <<initCaller, nextId, now>>
      /\ joinedFailed' = joinedFailedNext

\* executeOperation(id) settles: service.generateVideo resolved or rejected.
\* If the drain loop still awaits the race for this operation it goes on;
\* otherwise the race was decided by the timer and nothing listens.
ExecutorSettle(id, outcome) ==
  LET st == [St EXCEPT !.executing = @ \ {id}]
  IN  /\ id \in executing
      /\ Install(IF drain = "exec" /\ currentOperation = id
                   THEN afterExecute(st, outcome)
                   ELSE st)
      /\ ret' = NoRet
      /\ UNCHANGED <<initCaller, nextId, now>>
      /\ joinedFailed' = joinedFailedNext

\* Variant of TimerFire in which a timer that fires fails whatever operation
\* the drain loop is waiting for (one rejection shared by all races).
TimerFireFailsCurrent(id) ==
  LET st == [St EXCEPT !.timers = @ \ {id}]
  IN  /\ id \in timers
      /\ Install(IF drain = "exec"
                   THEN afterExecute(st, "timeout")
                   ELSE st)
      /\ ret' = NoRet
      /\ UNCHANGED <<initCaller, nextId, now>>
      /\ joinedFailed' = joinedFailedNext

\* The timer of executeWithTimeout for operation id fires (line 251).
TimerFire(id) ==
  LET st == [St EXCEPT !.timers = @ \ {id}]
  IN  /\ id \in timers
      /\ Install(IF drain = "exec" /\ currentOperation = id
                   THEN afterExecute(st, "timeout")
                   ELSE st)
      /\ ret' = NoRet
      /\ UNCHANGED <<initCaller, nextId, now>>
      /\ joinedFailed' = joinedFailedNext

\* The interval timer of line 40 fires.
Cleanup ==
  /\ Install(cleanupOldOperations(St))
  /\ ret' = NoRet
  /\ UNCHANGED <<initCaller, nextId, now>>
  /\ joinedFailed' = joinedFailedNext

\* Date.now() advances.
Tick ==
  /\ now < MaxTime
  /\ now' = now + 1
  /\ ret' = NoRet
  /\ UNCHANGED <<operations, queue, currentOperation, isProcessing,
                 serviceReady, serviceInitializing, drain, initCalls,
                 initCaller, executing, timers, nextId>>
  /\ joinedFailed' = joinedFailedNext

Next ==
  \/ Enqueue
  \/ \E id \in Ids : Cancel(id)
  \/ \E c \in Callers : InitCall(c)
  \/ \E c \in Callers, o \in {"true", "false", "throw"} : InitSettleCaller(c, o)
  \/ \E c \in Callers : InitPollCaller(c)
  \/ \E o \in {"true", "false", "throw"} : InitSettleDrain(o)
  \/ InitPollDrain
  \/ \E id \in Ids, o \in {"resolve", "reject"} : ExecutorSettle(id, o)
  \/ \E id \in Ids : TimerFire(id)
  \/ Cleanup
  \/ Tick

Spec == Init /\ [][Next]_vars

\* The two read handlers change no variable of the program, so the steps of
\* the scheduler are those of Next; NextReads adds the reads, whose answers
\* are then part of the behaviour.
NextReads ==
  \/ Next
  \/ \E id \in Ids : GetStatus(id)
  \/ GetAllStatus

SpecReads == Init /\ [][NextReads]_vars

\* The scheduler with the history of the wait loop.
SpecJoined == InitJoined /\ [][Next]_vars

\* What the event loop and the service guarantee of the steps that do not
\* answer a request: a timer of executeWithTimeout that was armed fires
\* (setTimeout, never cleared); an initVeedService call settles, one way or
\* the other; the drain loop, which looks at serviceInitializing every 100 ms,
\* sees it cleared if it is cleared again and again.  Nothing is assumed of
\* the Executor: its call may stay in flight for ever.
Fairness ==
  /\ \A id \in Ids : WF_vars(TimerFire(id))
  /\ WF_vars(\E o \in {"true", "false", "throw"} : InitSettleDrain(o))
  /\ \A c \in Callers :
       WF_vars(\E o \in {"true", "false", "throw"} : InitSettleCaller(c, o))
  /\ SF_vars(InitPollDrain)

FairSpec == Init /\ [][Next]_vars /\ Fairness

TypeOK ==
  /\ DOMAIN operations \subseteq Ids
  /\ \A id \in DOMAIN operations : operations[id].status \in OperationStatus
  /\ currentOperation \in Ids \cup {Null}
  /\ drain \in {"idle", "init", "poll", "exec"}
  /\ initCalls \in 0..(MaxInitCallers + 1)
  /\ joinedFailed = Untracked \/ joinedFailed \subseteq Waiting


\* ------------------------------------------------------------- properties
WithStatus(s) == {id \in DOMAIN operations : operations[id].status = s}
Terminal == {COMPLETED, FAILED}
\* number of records that are Queued or Processing
ActiveCount == Cardinality(WithStatus(QUEUED) \cup WithStatus(PROCESSING))
InQueue(q, id) == \E i \in 1..Len(q) : q[i] = id
\* q without every occurrence of id, the order of the rest kept
Without(q, id) == LET Keep(x) == x # id IN SelectSeq(q, Keep)

\* C1: in every reachable state at most one record of the store has status
\* Processing.
C1_AtMostOneProcessing == Cardinality(WithStatus(PROCESSING)) <= 1

\* A record is Processing while others wait and an enqueue has just called
\* processQueue again.
C1_Witness ==
  /\ Cardinality(WithStatus(PROCESSING)) = 1
  /\ Len(queue) >= 1
  /\ ret.op = "enqueue" /\ ret.ok

\* C2: at no instant is more than one Executor invocation in flight, also
\* after the timeout guard failed an operation whose Executor call has not
\* settled.
C2_OneExecutorInFlight == Cardinality(executing) <= 1

\* C3: a record's status only moves Queued -> Processing, Processing ->
\* Completed, Processing -> Failed or Queued -> Failed; a new record starts
\* at Queued (and may be taken for Processing within the same call); a
\* Completed or Failed record keeps its status.
C3_StatusStep(a, b) ==
  \/ a = b
  \/ <<a, b>> \in {<<QUEUED, PROCESSING>>, <<PROCESSING, COMPLETED>>,
                   <<PROCESSING, FAILED>>, <<QUEUED, FAILED>>}

C3_StatusPaths ==
  [][\A id \in DOMAIN operations' :
       IF id \in DOMAIN operations
         THEN C3_StatusStep(operations[id].status, operations'[id].status)
         ELSE operations'[id].status \in {QUEUED, PROCESSING}]_vars

\* All three paths have been taken: a record completed, one failed after
\* Processing and one was failed while Queued.
C3_Witness ==
  /\ WithStatus(COMPLETED) # {}
  /\ \E id \in WithStatus(FAILED) : operations[id].progress # None
  /\ \E id \in WithStatus(FAILED) : operations[id].progress = None

\* C4: enqueue is refused with the queue-full error exactly when the number
\* of Queued or Processing records is at or above maxQueueSize at the call;
\* a refused enqueue creates no record and changes nothing.
C4_EnqueueRefusal ==
  [][ret'.op = "enqueue" =>
       /\ ~ret'.ok <=> ActiveCount >= maxQueueSize
       /\ ~ret'.ok => /\ ret'.error = ErrQueueFull
                      /\ UNCHANGED <<progVars, nextId>>]_vars

\* An enqueue was refused while one record is Processing and the rest of the
\* capacity is Queued.
C4_Witness ==
  /\ ret.op = "enqueue" /\ ~ret.ok
  /\ WithStatus(PROCESSING) # {}
  /\ ActiveCount = maxQueueSize

\* C5: back-to-back enqueue calls within capacity return IDs distinct from
\* all IDs returned before and strictly increasing queue positions, and the
\* enqueue made while maxQueueSize records are Queued or Processing fails.
C5_BackToBackEnqueue ==
  [][ret'.op = "enqueue" =>
       /\ ret'.ok => ret'.id \notin 1..(nextId - 1)
       /\ (ret.op = "enqueue" /\ ret.ok /\ ret'.ok) =>
             ret'.position > ret.position
       /\ ActiveCount >= maxQueueSize => ~ret'.ok]_vars

\* C6: when a successful enqueue returns, the new record is Queued and last
\* in the pending queue, the reported status is Queued, the returned position
\* is its 1-based index in the pending queue and the returned queue length is
\* the length of the pending queue, so 1 <= position <= queueLength.
C6_EnqueueReturn ==
  (ret.op = "enqueue" /\ ret.ok) =>
     /\ operations[ret.id].status = QUEUED
     /\ queue # <<>> /\ queue[Len(queue)] = ret.id
     /\ ret.status = QUEUED
     /\ ret.position = IndexOf(queue, ret.id)
     /\ ret.queueLength = Len(queue)
     /\ 1 <= ret.position /\ ret.position <= ret.queueLength

\* C7: records reach Processing in arrival order: when a record becomes
\* Processing, every record that arrived before it and is still in the store
\* is Completed or Failed, and unless it was cancelled or failed by a
\* readiness failure it has been Processing itself.
C7_BecomesProcessing(b) ==
  /\ operations'[b].status = PROCESSING
  /\ b \in DOMAIN operations => operations[b].status # PROCESSING

C7_FifoOrder ==
  [][\A b \in DOMAIN operations' :
       C7_BecomesProcessing(b) =>
         \A a \in DOMAIN operations' :
           a < b =>
             /\ operations'[a].status \in Terminal
             /\ operations'[a].error \notin {ErrCancelled, ErrUnavailable}
                  => operations'[a].progress # None]_vars

\* The third arrival is Processing after the first two were processed.
C7_Witness ==
  \E a, b, c \in DOMAIN operations :
    /\ a < b /\ b < c
    /\ operations[c].status = PROCESSING
    /\ operations[a].progress # None /\ operations[b].progress # None

\* C8: cancelling a Queued record removes exactly its ID from the pending
\* queue and keeps the order of the other pending IDs; the cancelled record
\* is never taken for Processing and never enters the queue again.
C8_CancelKeepsOrder ==
  [][/\ (ret'.op = "cancel" /\ ret'.ok) =>
          /\ InQueue(queue, ret'.id)
          /\ queue' = Without(queue, ret'.id)
     /\ \A id \in DOMAIN operations \cap DOMAIN operations' :
          operations[id].error = ErrCancelled =>
            /\ operations'[id].status = FAILED
            /\ ~InQueue(queue', id)]_vars

\* After enqueue A, B, C the record B was cancelled: A and C are left, in
\* this order.
C8_Witness ==
  /\ ret.op = "cancel" /\ ret.ok
  /\ Len(queue) = 2
  /\ queue[1] < ret.id /\ ret.id < queue[2]

\* C9: cancel on an ID whose record is Queued succeeds; afterwards the ID is
\* absent from the pending queue, the record is Failed with the
\* cancelled-by-user error and an empty result, and no other record changed.
C9_CancelQueued ==
  [][ret'.op = "cancel" =>
       /\ ret'.ok <=> (/\ ret'.id \in DOMAIN operations
                       /\ operations[ret'.id].status = QUEUED)
       /\ ret'.ok =>
            /\ ~InQueue(queue', ret'.id)
            /\ operations'[ret'.id].status = FAILED
            /\ operations'[ret'.id].error = ErrCancelled
            /\ operations'[ret'.id].result = None
            /\ DOMAIN operations' = DOMAIN operations
            /\ \A other \in DOMAIN operations \ {ret'.id} :
                 operations'[other] = operations[other]]_vars

\* A cancel succeeded while another record is Processing and a third waits.
C9_Witness ==
  /\ ret.op = "cancel" /\ ret.ok
  /\ operations[ret.id].error = ErrCancelled
  /\ WithStatus(PROCESSING) # {}
  /\ WithStatus(QUEUED) # {}

\* C10: cancel on an ID with no record returns the not-found error, cancel on
\* a Processing, Completed or Failed record returns the invalid-state error;
\* both are returned (answered with 400 by the handler's test of
\* result.success), not thrown, and leave the store, the pending queue and
\* the operation in flight as they were.
C10_CancelRefused ==
  [][ret'.op = "cancel" =>
       /\ ret'.id \notin DOMAIN operations =>
            ~ret'.ok /\ ret'.error = ErrNotFound
       /\ (/\ ret'.id \in DOMAIN operations
           /\ operations[ret'.id].status # QUEUED) =>
            /\ ~ret'.ok
            /\ ret'.error = ErrInvalidState(operations[ret'.id].status)
       /\ ~ret'.ok => ret'.http = 400 /\ UNCHANGED <<progVars, nextId>>]_vars

\* A cancel of an already cancelled record was refused.
C10_Witness ==
  /\ ret.op = "cancel" /\ ~ret.ok
  /\ ret.id \in DOMAIN operations
  /\ operations[ret.id].error = ErrCancelled
  /\ ret.error = ErrInvalidState(FAILED)

\* The step in which the drain loop learns that initialization failed: it was
\* waiting for initializeService and goes on with the service not ready.
C11_InitFailureStep ==
  /\ drain \in {"init", "poll"}
  /\ drain' \notin {"init", "poll"}
  /\ ~serviceReady'

\* C11: when the initialization awaited by the drain loop fails, every record
\* that is Queued at that moment becomes Failed with the service-unavailable
\* error and no other record changes, the queue becomes empty, no Executor
\* call or timer is started, and the drain loop ends with the scheduler idle.
C11_InitFailureFailsQueued ==
  [][C11_InitFailureStep =>
       /\ DOMAIN operations' = DOMAIN operations
       /\ \A id \in DOMAIN operations :
            IF operations[id].status = QUEUED
              THEN /\ operations'[id].status = FAILED
                   /\ operations'[id].error = ErrUnavailable
              ELSE operations'[id] = operations[id]
       /\ queue' = <<>>
       /\ executing' = executing
       /\ timers' = timers
       /\ drain' = "idle"
       /\ ~isProcessing'
       /\ currentOperation' = Null]_vars

\* Two records, the second enqueued while the initialization was in flight,
\* were failed by the same failed initialization; no Executor call was made.
C11_Witness ==
  /\ Cardinality({id \in DOMAIN operations :
                    operations[id].error = ErrUnavailable}) >= 2
  /\ \A id \in DOMAIN operations : operations[id].error = ErrUnavailable
  /\ \A id \in DOMAIN operations : operations[id].updatedAt = now
  /\ queue = <<>>
  /\ drain = "idle"
  /\ executing = {}
  /\ ret = NoRet
\* C12: initialization is single-flight: at every instant at most one
\* initVeedService call is in flight, whoever the callers of initializeService
\* are, and a call is started only when none is in flight and the service is
\* not ready.
C12_SingleFlightInit ==
  /\ [](initCalls <= 1)
  /\ [][initCalls' > initCalls => (initCalls = 0 /\ ~serviceReady)]_vars

\* The drain loop's initVeedService call is in flight and an explicit init
\* request is waiting for its outcome.
C12_Witness ==
  /\ initCalls = 1
  /\ drain = "init"
  /\ \E c \in Callers : initCaller[c] = "poll"
\* The step in which the timer of the operation the drain loop is waiting for
\* fires.
C13_TimeoutStep(id) ==
  /\ id \in timers /\ id \notin timers'
  /\ drain = "exec" /\ currentOperation = id

\* C13: a Processing record whose Executor call does not settle is failed by
\* the timer: sooner or later the record is Failed with the timeout error
\* (unless the Executor call settled); the step that fails it takes
\* currentOperation off the record and, in the same step, makes the head of
\* the queue Processing with an Executor call of its own (or leaves the
\* scheduler idle if nothing waits), while the timed-out call stays in flight.
C13_TimeoutFailsAndGoesOn ==
  /\ \A id \in Ids :
       (id \in DOMAIN operations /\ operations[id].status = PROCESSING)
         ~> \/ id \notin executing
            \/ /\ id \in DOMAIN operations
               /\ operations[id].status = FAILED
               /\ operations[id].error = ErrTimeout
  /\ [][\A id \in Ids : C13_TimeoutStep(id) =>
          /\ operations'[id].status = FAILED
          /\ operations'[id].error = ErrTimeout
          /\ currentOperation' # id
          /\ id \in executing => id \in executing'
          /\ IF queue = <<>>
               THEN /\ currentOperation' = Null
                    /\ drain' = "idle"
                    /\ ~isProcessing'
               ELSE /\ currentOperation' = Head(queue)
                    /\ operations'[Head(queue)].status = PROCESSING
                    /\ queue' = Tail(queue)
                    /\ Head(queue) \in executing'
                    /\ drain' = "exec"]_vars

\* A record failed by the timer while its Executor call is still in flight,
\* and the record that waited behind it already Processing.
C13_Witness ==
  \E id \in DOMAIN operations :
    /\ operations[id].status = FAILED
    /\ operations[id].error = ErrTimeout
    /\ id \in executing
    /\ currentOperation \notin {Null, id}
    /\ operations[currentOperation].status = PROCESSING
    /\ currentOperation \in executing
C15_Expired ==
  {id \in DOMAIN operations :
     /\ operations[id].status \in Terminal
     /\ now - operations[id].updatedAt > operationTTL}

\* C15: a sweep deletes exactly the records that are Completed or Failed and
\* older than the retention window.  The records it leaves are unchanged and
\* getStatus still returns them; getStatus returns null for the deleted ones;
\* a Queued or Processing record stays, however old; and no step other than
\* a sweep takes a record out of the store.
C15_SweepDeletesExpired ==
  [][/\ Cleanup =>
          /\ DOMAIN operations' = DOMAIN operations \ C15_Expired
          /\ \A id \in DOMAIN operations' : operations'[id] = operations[id]
          /\ \A id \in DOMAIN operations :
               getStatus(St, id)'.ok <=> id \notin C15_Expired
          /\ \A id \in DOMAIN operations :
               operations[id].status \in {QUEUED, PROCESSING}
                 => getStatus(St, id)'.status = operations[id].status
     /\ DOMAIN operations \subseteq DOMAIN operations' \cup C15_Expired
    ]_vars

\* After a sweep: one record is gone, a terminal record younger than the
\* window is still there, and so is a record that is not terminal and older
\* than the window.
C15_Witness ==
  /\ \E id \in 1..(nextId - 1) : id \notin DOMAIN operations
  /\ \E id \in DOMAIN operations :
       /\ operations[id].status \in Terminal
       /\ now - operations[id].updatedAt <= operationTTL
       /\ getStatus(St, id).ok
  /\ \E id \in DOMAIN operations :
       /\ operations[id].status \in {QUEUED, PROCESSING}
       /\ now - operations[id].updatedAt > operationTTL
  /\ C15_Expired = {}
\* C16: what getStatus has just returned.  Null exactly when the store has no
\* record of the ID; otherwise a snapshot with the record's status, with the
\* queue's length, and with a position that is the record's 1-based place in
\* the queue if the record is Queued and null if it is Processing, Completed
\* or Failed.
C16_GetStatusSnapshot ==
  ret.op = "status" =>
    /\ ret.ok <=> ret.id \in DOMAIN operations
    /\ ret.ok =>
         /\ ret.status = operations[ret.id].status
         /\ ret.queueLength = Len(queue)
         /\ IF ret.status = QUEUED
              THEN /\ ret.position \in 1..ret.queueLength
                   /\ queue[ret.position] = ret.id
              ELSE ret.position = 0

\* getStatus answered for a record that waits behind another one.
C16_Witness ==
  /\ ret.op = "status" /\ ret.ok
  /\ ret.status = QUEUED
  /\ ret.position = 2
  /\ ret.queueLength >= 2
\* C17: in every reachable state a record has a result if and only if it is
\* Completed and an error if and only if it is Failed, whether it failed by an
\* Executor error, by the timer, by cancellation or by a failed
\* initialization.  (The Executor's payload and its error message are not
\* empty.)
C17_ResultAndErrorMatchStatus ==
  \A id \in DOMAIN operations :
    /\ operations[id].result # None <=> operations[id].status = COMPLETED
    /\ operations[id].error # None <=> operations[id].status = FAILED
    /\ operations[id].status = FAILED =>
         operations[id].error \in
           {ErrExecutor, ErrTimeout, ErrCancelled, ErrUnavailable}

\* One record failed by a failed initialization, one cancelled, one completed.
C17_Witness ==
  \E a, b, c \in DOMAIN operations :
    /\ operations[a].status = FAILED /\ operations[a].error = ErrUnavailable
    /\ operations[b].status = FAILED /\ operations[b].error = ErrCancelled
    /\ operations[c].status = COMPLETED /\ operations[c].result = VideoResult
    /\ operations[c].error = None
\* What an answer of getAllStatus has to be in the state it describes.
C18_Answer ==
  LET list == ret.operations
      listed == {list[i] : i \in 1..Len(list)}
  IN  /\ ret.queueLength = Len(queue)
      /\ ret.processing <=> WithStatus(PROCESSING) # {}
      /\ IF ret.processing
           THEN WithStatus(PROCESSING) = {ret.currentOperationId}
           ELSE ret.currentOperationId = Null
      /\ ret.serviceReady = serviceReady
      /\ Len(list) <= statusListLimit
      /\ listed \subseteq DOMAIN operations
      /\ Cardinality(listed) = Len(list)
      /\ Len(list) < statusListLimit => listed = DOMAIN operations
      /\ \A a \in listed, b \in DOMAIN operations \ listed :
           operations[a].createdAt >= operations[b].createdAt
      /\ \A i, j \in 1..Len(list) :
           i < j => operations[list[i]].createdAt >= operations[list[j]].createdAt

\* C18: getAllStatus reports the queue's length, whether a record is
\* Processing and which one, the readiness flag, and a list, cut to the limit
\* (20 in the source), of the most recently created records of the store, the
\* most recent first; the call changes nothing.
C18_GetAllStatus ==
  [][ret'.op = "queue" =>
       /\ C18_Answer'
       /\ UNCHANGED <<progVars, nextId, now>>]_vars

\* getAllStatus answered while a record was Processing and the store held
\* more records than the list takes; the list starts with a record created
\* later than the one it ends with.
C18_Witness ==
  /\ ret.op = "queue"
  /\ ret.processing
  /\ Cardinality(DOMAIN operations) > statusListLimit
  /\ Len(ret.operations) = statusListLimit
  /\ operations[ret.operations[1]].createdAt
       > operations[ret.operations[statusListLimit]].createdAt
\* C19: enqueue, getStatus and cancel are single steps that can be taken in
\* every reachable state, whatever the drain loop is waiting for; and the
\* step of such a call leaves every initVeedService call, Executor call and
\* timer that was in flight still in flight: it returns without waiting for
\* them.
C19_CallsNeverWait ==
  /\ [](/\ nextId <= MaxOps => ENABLED Enqueue
        /\ \A id \in Ids : ENABLED GetStatus(id)
        /\ \A id \in Ids : ENABLED Cancel(id))
  /\ [][ret'.op \in {"enqueue", "status", "cancel"} =>
          /\ initCalls' >= initCalls
          /\ executing \subseteq executing'
          /\ timers \subseteq timers'
          /\ \A id \in WithStatus(PROCESSING) :
               operations'[id].status = PROCESSING]_vars

\* A cancellation was answered while the drain loop waits for an Executor
\* call that is in flight.
C19_Witness ==
  /\ ret.op = "cancel" /\ ret.ok
  /\ drain = "exec"
  /\ currentOperation \in executing
\* C20: the status endpoint and the cancel endpoint both answer a request
\* for an operation ID that has no record with status code 404.
C20_NotFoundIs404 ==
  (ret.op \in {"status", "cancel"} /\ ret.id \notin DOMAIN operations)
    => ret.http = 404
\* C21: in every reachable state every ID in the queue names a record of the
\* store that is Queued, no ID is in the queue twice, and every Queued record
\* is in the queue; and an ID enters the queue only as the fresh ID of a
\* record that enqueue creates in that step, so an ID taken out of the queue
\* is never put back.
C21_QueueHoldsQueuedOnce ==
  /\ [](/\ \A i \in 1..Len(queue) :
             /\ queue[i] \in DOMAIN operations
             /\ operations[queue[i]].status = QUEUED
        /\ \A i, j \in 1..Len(queue) : queue[i] = queue[j] => i = j
        /\ \A id \in WithStatus(QUEUED) : InQueue(queue, id)
        /\ \A id \in DOMAIN operations : id < nextId)
  /\ [][/\ nextId' >= nextId
        /\ \A id \in Ids :
             (~InQueue(queue, id) /\ InQueue(queue', id))
               => /\ id = nextId
                  /\ id \notin DOMAIN operations
                  /\ nextId' = nextId + 1]_vars

\* A record waits in the queue after one was taken out for execution and
\* one was taken out by a cancellation.
C21_Witness ==
  /\ Len(queue) >= 1
  /\ currentOperation # Null
  /\ ~InQueue(queue, currentOperation)
  /\ \E id \in DOMAIN operations :
       /\ operations[id].error = ErrCancelled
       /\ ~InQueue(queue, id)
\* C22: at most one drain loop runs.  isProcessing is set exactly while the
\* drain loop is somewhere between its start and its end; an enqueue made
\* then only appends its record, the processQueue call in it returning
\* without shifting the queue, calling initVeedService or calling the
\* Executor; and a cancel never starts or ends a drain loop.
C22_SingleDrain ==
  /\ [](isProcessing <=> drain # "idle")
  /\ [][/\ (isProcessing /\ ret'.op = "enqueue" /\ ret'.ok) =>
             /\ queue' = Append(queue, ret'.id)
             /\ currentOperation' = currentOperation
             /\ executing' = executing
             /\ timers' = timers
             /\ initCalls' = initCalls
             /\ drain' = drain
             /\ isProcessing'
             /\ \A id \in DOMAIN operations : operations'[id] = operations[id]
        /\ ret'.op = "cancel" =>
             /\ drain' = drain
             /\ isProcessing' = isProcessing
             /\ currentOperation' = currentOperation
             /\ executing' = executing
             /\ timers' = timers
             /\ initCalls' = initCalls]_vars

\* An enqueue returned while the drain loop was waiting for its
\* initVeedService call: two records wait and nothing else was started.
C22_Witness ==
  /\ ret.op = "enqueue" /\ ret.ok
  /\ drain = "init"
  /\ Len(queue) = 2
  /\ initCalls = 1
  /\ executing = {}
\* C23: a caller of initializeService that found an initialization in flight
\* returns the outcome of that attempt.  A /api/veed/init request that leaves
\* the wait loop answers "not ready" if the attempt it waited for failed and
\* "ready" otherwise; the drain loop, leaving the wait loop, fails the queued
\* records if the attempt it waited for failed and otherwise goes on to run
\* them.
C23_WaiterGetsJoinedOutcome ==
  [][/\ \A c \in Callers :
          (initCaller[c] = "poll" /\ initCaller'[c] # "poll")
            => /\ ret'.op = "init"
               /\ ret'.ok <=> c \notin joinedFailed
     /\ (drain = "poll" /\ drain' # "poll")
          => IF 0 \in joinedFailed
               THEN /\ executing' = executing
                    /\ \A id \in WithStatus(QUEUED) :
                         /\ operations'[id].status = FAILED
                         /\ operations'[id].error = ErrUnavailable
               ELSE \A id \in WithStatus(QUEUED) :
                      operations'[id].status # FAILED
    ]_vars

\* The step in which an initVeedService call settles.
C24_AttemptSettles == initCalls' < initCalls

\* The step in which initializeService is called (by a /api/veed/init request
\* or by the drain loop that an enqueue starts) while no call is in flight.
C24_CallWhenNoneInFlight ==
  /\ ~serviceInitializing
  /\ \/ \E c \in Callers : InitCall(c)
     \/ drain = "idle" /\ drain' # "idle"

\* C24: when an initialization attempt settles, serviceInitializing is
\* cleared and serviceReady is the outcome, which is what the caller that
\* made the attempt gets.  While the service is not ready, the next call of
\* initializeService starts a fresh initVeedService call; once the service is
\* ready it stays ready, and a call of initializeService returns true without
\* starting a call.
C24_RetryAfterFailure ==
  [][/\ C24_AttemptSettles =>
          /\ ~serviceInitializing'
          /\ initCalls' = 0
          /\ \A c \in Callers :
               initCaller[c] = "own" =>
                 (ret'.op = "init" /\ (ret'.ok <=> serviceReady'))
          /\ drain = "init" =>
               IF serviceReady'
                 THEN WithStatus(FAILED)' = WithStatus(FAILED)
                 ELSE drain' = "idle" /\ WithStatus(QUEUED)' = {}
     /\ (C24_CallWhenNoneInFlight /\ ~serviceReady) =>
          /\ initCalls' = 1
          /\ serviceInitializing'
          /\ ~serviceReady'
     /\ (C24_CallWhenNoneInFlight /\ serviceReady) =>
          /\ initCalls' = 0
          /\ ~serviceInitializing'
          /\ \A c \in Callers : InitCall(c) => (ret'.op = "init" /\ ret'.ok)
     /\ serviceReady => (serviceReady' /\ initCalls' = 0)
    ]_vars

\* After an attempt of the drain loop failed (its records are Failed), a later
\* enqueue started a drain loop whose fresh attempt is in flight.
C24_Witness ==
  /\ \E id \in DOMAIN operations : operations[id].error = ErrUnavailable
  /\ drain = "init"
  /\ initCalls = 1
  /\ serviceInitializing /\ ~serviceReady
  /\ Len(queue) >= 1
\* C25: the progress of a record is written only while the record is
\* Processing.  A Queued record has no progress; a step that changes the
\* progress of a record leaves the record Processing; and the progress of a
\* Completed or Failed record never changes again, whether or not the
\* Executor call of a record failed by the timer is still in flight.
C25_ProgressOnlyWhileProcessing ==
  /\ [](\A id \in WithStatus(QUEUED) : operations[id].progress = None)
  /\ [][\A id \in DOMAIN operations \cap DOMAIN operations' :
          operations'[id].progress # operations[id].progress
            => /\ operations'[id].status = PROCESSING
               /\ operations[id].status = QUEUED
               /\ id \in executing' \ executing]_vars

\* The Executor call of a record that the timer failed has settled
\* afterwards; the record holds the progress written when it started.
C25_Witness ==
  \E id \in DOMAIN operations :
    /\ operations[id].status = FAILED
    /\ operations[id].error = ErrTimeout
    /\ operations[id].progress = ProgressStart
    /\ id \notin executing
    /\ id \notin timers
    /\ drain = "idle"
\* C26: whenever no drain loop is running the queue is empty and no record
\* is Queued: no record is left waiting with nothing to pick it up.
C26_IdleMeansNothingWaits ==
  (drain = "idle" \/ ~isProcessing) =>
    /\ queue = <<>>
    /\ WithStatus(QUEUED) = {}
    /\ WithStatus(PROCESSING) = {}

\* The scheduler is idle again after it completed one record, lost one to a
\* failed initialization and had one cancelled.
C26_Witness ==
  /\ drain = "idle"
  /\ \E a, b, c \in DOMAIN operations :
       /\ operations[a].status = COMPLETED
       /\ operations[b].error = ErrUnavailable
       /\ operations[c].error = ErrCancelled
\* The record of id is no longer Processing (or no longer in the store).
C27_Over(id) ==
  id \in DOMAIN operations => operations[id].status # PROCESSING

\* C27: when the Executor call of a record that is no longer Processing
\* settles (the timer had failed the record), and when the timer of a record
\* that is no longer Processing fires (its Executor call had settled), no
\* record changes and the drain loop stays where it is; in particular the
\* operation that is Processing then is not failed.
C27_LateOutcomesChangeNothing ==
  [][\A id \in Ids :
       ( /\ C27_Over(id)
         /\ \/ id \in executing \ executing'
            \/ id \in timers \ timers' )
       => /\ operations' = operations
          /\ queue' = queue
          /\ currentOperation' = currentOperation
          /\ drain' = drain
          /\ isProcessing' = isProcessing]_vars

\* A record is Processing, untouched, after the timer of a completed record
\* fired and the Executor call of a timed-out record settled.
C27_Witness ==
  \E a, b, c \in DOMAIN operations :
    /\ operations[a].status = COMPLETED
    /\ operations[b].error = ErrTimeout
    /\ operations[c].status = PROCESSING
    /\ timers = {c}
    /\ executing = {c}
\* C28: the Executor is called at most once per record, and only for the
\* record the drain loop has just taken from the head of the queue (where an
\* enqueue that found the scheduler idle has just put it) and marked
\* Processing.  A record never becomes Queued again, so the step that calls
\* the Executor for it happens once; and a cancelled record was never handed
\* to the Executor: it has no progress, no Executor call and no timer.
C28_ExecutorOncePerRecord ==
  /\ [](\A id \in DOMAIN operations :
          operations[id].error = ErrCancelled
            => /\ operations[id].progress = None
               /\ id \notin executing
               /\ id \notin timers)
  /\ [][/\ \A id \in Ids :
             id \in executing' \ executing
               => /\ \/ /\ id \in DOMAIN operations
                        /\ operations[id].status = QUEUED
                        /\ queue # <<>> /\ Head(queue) = id
                     \/ \* the record is created by the enqueue of this step
                        /\ id \notin DOMAIN operations
                        /\ id = nextId
                        /\ queue = <<>>
                  /\ operations'[id].status = PROCESSING
                  /\ currentOperation' = id
                  /\ executing' \ executing = {id}
        /\ \A id \in DOMAIN operations \cap DOMAIN operations' :
             operations'[id].status = QUEUED => operations[id].status = QUEUED
       ]_vars

\* The only record was cancelled while the drain loop waited for its
\* initVeedService call; the call succeeded, the drain loop found the queue
\* empty and ended without calling the Executor.
C28_Witness ==
  /\ serviceReady
  /\ drain = "idle"
  /\ nextId = 2
  /\ 1 \in DOMAIN operations /\ operations[1].error = ErrCancelled
  /\ executing = {} /\ timers = {}
  /\ \A c \in Callers : initCaller[c] = "idle"
  /\ ret = NoRet
  /\ now = operations[1].updatedAt
\* The step in which an initVeedService call is started.
C29_AttemptStarts == initCalls' > initCalls

\* C29: a drain loop whose initialization failed ends in that step and starts
\* no initVeedService call of its own: no call is in flight afterwards.  A
\* call is started only by an explicit /api/veed/init request or by an
\* enqueue that starts a drain loop on an idle scheduler, so one run of the
\* drain loop makes at most one failed attempt.
C29_NoRetryInsideDrain ==
  [][/\ C11_InitFailureStep =>
          /\ drain' = "idle"
          /\ ~isProcessing'
          /\ ~serviceInitializing'
          /\ initCalls' = 0
     /\ C29_AttemptStarts =>
          \/ \E c \in Callers :
               initCaller[c] = "idle" /\ initCaller'[c] = "own"
          \/ /\ drain = "idle" /\ drain' = "init"
             /\ ret'.op = "enqueue" /\ ret'.ok
    ]_vars

\* After the drain loop's attempt failed and failed its records, the
\* scheduler is idle and the only attempt in flight is the one an explicit
\* init request started.
C29_Witness ==
  /\ \E id \in DOMAIN operations : operations[id].error = ErrUnavailable
  /\ drain = "idle"
  /\ queue = <<>>
  /\ initCalls = 1
  /\ \E c \in Callers : initCaller[c] = "own"
\* C30: in every reachable state currentOperation is set exactly when a
\* record is Processing, and then it is that record's ID and a drain loop is
\* running; so the count enqueue compares with maxQueueSize is the number of
\* records that are Queued or Processing, and it never exceeds maxQueueSize.
C30_MarkerAndCapacityCount ==
  /\ currentOperation # Null <=> WithStatus(PROCESSING) # {}
  /\ currentOperation # Null =>
       /\ WithStatus(PROCESSING) = {currentOperation}
       /\ isProcessing
       /\ drain = "exec"
  /\ pendingCount(St) = ActiveCount
  /\ pendingCount(St) <= maxQueueSize

\* The count is at the limit with one record Processing and the others
\* waiting, and an enqueue has just been refused.
C30_Witness ==
  /\ currentOperation # Null
  /\ Len(queue) = maxQueueSize - 1
  /\ pendingCount(St) = maxQueueSize
  /\ ret.op = "enqueue" /\ ~ret.ok
====
